---- MODULE Spec2Model ----
(***************************************************************************)
(* Model of src/v6_bug_dashboard.py, the "Bug Dashboard" tab: one Streamlit *)
(* script run per user interaction (upload, widget change).  A run loads    *)
(* the CSV, checks the required columns, builds the sidebar filters,        *)
(* filters the frame, and computes the KPIs, the value-count charts, the    *)
(* monthly trend and the details table.                                     *)
(*                                                                          *)
(* Text cells are sequences of characters; a blank CSV cell is NaN.         *)
(* Timestamps are hours since 1 January 00:00 of a non-leap year; an        *)
(* unparseable or blank date cell is NaT.  Calendar days are day numbers    *)
(* (timestamp \div 24).                                                     *)
(***************************************************************************)
EXTENDS Integers, Sequences, FiniteSets, TLC

\* ------------------------------------------------------------- bounds
\* Longest dataset (number of CSV rows) the model uploads.
MaxRows == 2

\* ------------------------------------------------------------- values
NaN == <<"NaN">>
NaT == -1
NoCount == -1
None == "None"

Columns ==
  {"Summary", "Issue key", "Issue Type", "Status", "Priority", "Assignee",
   "Created", "Updated", "Resolved"}

required_cols == <<"Summary", "Issue key", "Issue Type", "Status">>

closed_statuses ==
  { <<"c","l","o","s","e","d">>, <<"d","o","n","e">>,
    <<"r","e","s","o","l","v","e","d">> }

HoursPerDay == 24
WindowDays == 30
top_n == 10

\* ------------------------------------------------------------- calendar
MonthLengths == <<31, 28, 31, 30, 31, 30, 31, 31, 30, 31, 30, 31>>

RECURSIVE MonthStartDay(_, _, _)
\* First day number of the calendar month holding day d; m is the month being
\* tried and first its first day.
MonthStartDay(d, m, first) ==
  IF m >= Len(MonthLengths) \/ d < first + MonthLengths[m]
    THEN first
    ELSE MonthStartDay(d, m + 1, first + MonthLengths[m])

\* Timestamp.date()
DateOf(t) == t \div HoursPerDay
\* pd.to_datetime(date): midnight of that day
ToDatetime(d) == d * HoursPerDay
\* Timestamp.normalize(): midnight of the same day
Normalize(t) == t - (t % HoursPerDay)
\* .dt.to_period("M").dt.to_timestamp(): midnight of the first of the month
MonthStart(t) == ToDatetime(MonthStartDay(DateOf(t), 1, 0))

\* Comparisons of a (possibly NaT) cell with a timestamp: NaT compares False.
Ge(cell, t) == cell # NaT /\ cell >= t
Le(cell, t) == cell # NaT /\ cell <= t

\* ------------------------------------------------------------- strings
Whitespace == {" ", "\t"}

Upper == <<"A","B","C","D","E","F","G","H","I","J","K","L","M",
           "N","O","P","Q","R","S","T","U","V","W","X","Y","Z">>
LowerLetters == <<"a","b","c","d","e","f","g","h","i","j","k","l","m",
                  "n","o","p","q","r","s","t","u","v","w","x","y","z">>

LowerChar(c) ==
  IF \E i \in DOMAIN Upper : Upper[i] = c
    THEN LowerLetters[CHOOSE i \in DOMAIN Upper : Upper[i] = c]
    ELSE c

\* str.lower()
StrLower(s) == [i \in DOMAIN s |-> LowerChar(s[i])]

RECURSIVE LStrip(_)
LStrip(s) ==
  IF s # <<>> /\ Head(s) \in Whitespace THEN LStrip(Tail(s)) ELSE s

RECURSIVE RStrip(_)
RStrip(s) ==
  IF s # <<>> /\ s[Len(s)] \in Whitespace
    THEN RStrip(SubSeq(s, 1, Len(s) - 1))
    ELSE s

\* str.strip()
StrStrip(s) == RStrip(LStrip(s))

\* normalize_status without the strip.
normalize_status_NoStrip(cell) ==
  StrLower(IF cell = NaN THEN <<>> ELSE cell)

\* normalize_status, cell by cell: fillna(""), astype(str), strip, lower
normalize_status(cell) ==
  StrLower(StrStrip(IF cell = NaN THEN <<>> ELSE cell))

\* ------------------------------------------------------------- frames
\* A frame (pandas DataFrame) is [columns, rows]: rows is a sequence of
\* functions from the frame's columns to cells; the position in rows is the
\* frame's index label.
Cell(df, i, col) == df.rows[i][col]

Index(df) == 1..Len(df.rows)

\* load_data: read_csv, then to_datetime(errors="coerce") on the date columns
\* that are present.  A csv date cell is the timestamp its text parses to, or
\* Unparseable for text that is no date ("not-a-date"), or BlankDate.
DateColumns == {"Created", "Updated", "Resolved"}
BlankDate == -1
Unparseable == -2

ToDatetimeCoerce(cell) == IF cell >= 0 THEN cell ELSE NaT

load_data(file) ==
  [columns |-> file.columns,
   rows |-> [i \in DOMAIN file.rows |->
               [c \in file.columns |->
                  IF c \in DateColumns
                    THEN ToDatetimeCoerce(file.rows[i][c])
                    ELSE file.rows[i][c]]]]

\* The column check reporting every required column when one is absent.
missing_AllRequired(df) ==
  IF \E k \in DOMAIN required_cols : required_cols[k] \notin df.columns
    THEN required_cols ELSE <<>>

\* [c for c in required_cols if c not in df.columns]
missing(df) ==
  SelectSeq(required_cols, LAMBDA c : c \notin df.columns)

\* df[col].dropna().unique()
DropnaUnique(df, col) == {Cell(df, i, col) : i \in Index(df)} \ {NaN}

issue_types(df) == DropnaUnique(df, "Issue Type")
statuses(df) == DropnaUnique(df, "Status")
priorities(df) ==
  IF "Priority" \in df.columns THEN DropnaUnique(df, "Priority") ELSE {}
assignees(df) ==
  IF "Assignee" \in df.columns THEN DropnaUnique(df, "Assignee") ELSE {}

date_col(df) ==
  IF "Created" \in df.columns THEN "Created"
  ELSE IF "Updated" \in df.columns THEN "Updated"
  ELSE None

\* The non-NaT cells of a date column.
Stamps(df, col) == {Cell(df, i, col) : i \in Index(df)} \ {NaT}

SetMin(S) == CHOOSE x \in S : \A y \in S : x <= y
SetMax(S) == CHOOSE x \in S : \A y \in S : x >= y

\* df[date_col].min() / .max(): NaT when the column holds no timestamp
min_date(df) ==
  IF date_col(df) = None \/ Stamps(df, date_col(df)) = {}
    THEN NaT ELSE SetMin(Stamps(df, date_col(df)))
max_date(df) ==
  IF date_col(df) = None \/ Stamps(df, date_col(df)) = {}
    THEN NaT ELSE SetMax(Stamps(df, date_col(df)))

\* Whether the run renders the date_input widget.
HasDateInput(df) == min_date(df) # NaT /\ max_date(df) # NaT

\* The widget state a first run of the script builds: every multiselect
\* preset to all its options, the date range to (min_date, max_date).
DefaultWidgets(df) ==
  [issue_types |-> issue_types(df),
   statuses |-> statuses(df),
   priorities |-> priorities(df),
   assignees |-> assignees(df),
   date_range |-> IF HasDateInput(df)
                    THEN <<DateOf(min_date(df)), DateOf(max_date(df))>>
                    ELSE <<>>]

\* ------------------------------------------------------------- filters
\* frame[mask] keeps, in order, the index labels whose row satisfies the mask
\* (SelectSeq).
\* df.copy(): all index labels, in order
AllRows(df) == [i \in Index(df) |-> i]

ByIssueType(df, w, idx) ==
  IF w.issue_types # {}
    THEN SelectSeq(idx, LAMBDA i : Cell(df, i, "Issue Type") \in w.issue_types)
    ELSE idx

\* The Status filter applied to an empty selection too.
ByStatus_NoPassThrough(df, w, idx) ==
  SelectSeq(idx, LAMBDA i : Cell(df, i, "Status") \in w.statuses)

\* The Status filter keeping the rows outside the selection.
ByStatus_Inverted(df, w, idx) ==
  IF w.statuses # {}
    THEN SelectSeq(idx, LAMBDA i : Cell(df, i, "Status") \notin w.statuses)
    ELSE idx

ByStatus(df, w, idx) ==
  IF w.statuses # {}
    THEN SelectSeq(idx, LAMBDA i : Cell(df, i, "Status") \in w.statuses)
    ELSE idx

ByPriority(df, w, idx) ==
  IF priorities(df) # {} /\ w.priorities # {}
    THEN SelectSeq(idx, LAMBDA i : Cell(df, i, "Priority") \in w.priorities)
    ELSE idx

ByAssignee(df, w, idx) ==
  IF assignees(df) # {} /\ w.assignees # {}
    THEN SelectSeq(idx, LAMBDA i : Cell(df, i, "Assignee") \in w.assignees)
    ELSE idx

\* if date_col and date_range
DateFilterActive(df, w) == date_col(df) # None /\ w.date_range # <<>>

\* start_date, end_date = date_range raises ValueError unless it holds two
UnpackRaises(df, w) == DateFilterActive(df, w) /\ Len(w.date_range) # 2

ByDate(df, w, idx) ==
  IF DateFilterActive(df, w)
    THEN SelectSeq(idx, LAMBDA i :
           /\ Ge(Cell(df, i, date_col(df)), ToDatetime(w.date_range[1]))
           /\ Le(Cell(df, i, date_col(df)), ToDatetime(w.date_range[2])))
    ELSE idx

\* filtered_df as the sequence of index labels it keeps
filtered_df(df, w) ==
  ByDate(df, w,
    ByAssignee(df, w,
      ByPriority(df, w,
        ByStatus(df, w,
          ByIssueType(df, w, AllRows(df))))))

\* ------------------------------------------------------------- KPIs
Count(S) == Cardinality(S)

is_closed(df, i) == normalize_status(Cell(df, i, "Status")) \in closed_statuses

total_issues(df) == Len(df.rows)
open_issues(df) == Count({i \in Index(df) : ~is_closed(df, i)})
closed_issues(df) == Count({i \in Index(df) : is_closed(df, i)})

\* pd.Timestamp.today().normalize()
today(now) == Normalize(now)
last_30(now) == today(now) - WindowDays * HoursPerDay

\* rows of df with last_30 <= df[col] <= today; np.nan without the column
Recent(df, col, now) ==
  IF col \in df.columns
    THEN Count({i \in Index(df) :
                  Ge(Cell(df, i, col), last_30(now)) /\ Le(Cell(df, i, col), today(now))})
    ELSE NoCount

created_recent(df, now) == Recent(df, "Created", now)
resolved_recent(df, now) == Recent(df, "Resolved", now)

\* ------------------------------------------------------------- charts
\* Series.value_counts() over the rows idx of df: a function from the
\* distinct values to their counts.  dropna=True: NaN cells are left out.
value_counts(df, idx, col) ==
  LET vals == {Cell(df, idx[k], col) : k \in DOMAIN idx} \ {NaN}
  IN [v \in vals |-> Count({k \in DOMAIN idx : Cell(df, idx[k], col) = v})]

\* .head(n) of a value_counts result, which is sorted by count descending:
\* n of its entries, none kept with a smaller count than one dropped.
HeadCounts(vc, n) ==
  IF Count(DOMAIN vc) <= n THEN vc
  ELSE LET keep == CHOOSE K \in SUBSET DOMAIN vc :
                     /\ Count(K) = n
                     /\ \A a \in K, b \in (DOMAIN vc) \ K : vc[a] >= vc[b]
       IN [v \in keep |-> vc[v]]

type_counts(df, idx) == value_counts(df, idx, "Issue Type")
status_counts(df, idx) == value_counts(df, idx, "Status")
\* None-valued when the frame has no Assignee column
assignee_counts(df, idx) ==
  IF "Assignee" \in df.columns
    THEN HeadCounts(value_counts(df, idx, "Assignee"), top_n)
    ELSE << >>

\* ------------------------------------------------------------- trend
\* df.dropna(subset=[col]) ... groupby("month")["Issue key"].count(): for each
\* month start, the number of non-null Issue key cells among the rows whose
\* col is a timestamp of that month.
MonthlyCounts(df, col) ==
  LET months == {MonthStart(t) : t \in Stamps(df, col)}
  IN [m \in months |->
        Count({i \in Index(df) :
                 /\ Cell(df, i, col) # NaT
                 /\ MonthStart(Cell(df, i, col)) = m
                 /\ Cell(df, i, "Issue key") # NaN})]

created_ts(df) ==
  IF "Created" \in df.columns THEN MonthlyCounts(df, "Created") ELSE << >>
resolved_ts(df) ==
  IF "Resolved" \in df.columns THEN MonthlyCounts(df, "Resolved") ELSE << >>

\* The sorted sequence of a finite set of integers.
RECURSIVE SortedSeq(_)
SortedSeq(S) ==
  IF S = {} THEN <<>> ELSE <<SetMin(S)>> \o SortedSeq(S \ {SetMin(S)})

\* trend_df after sort_index(): one record per month of its index, ascending.
\* A series column absent from the frame is NoCount in every record; a month
\* the outer join adds to a series that has no such group is NoCount (NaN).
trend_df(df) ==
  LET c == created_ts(df)
      r == resolved_ts(df)
      hasC == "Created" \in df.columns
      hasR == "Resolved" \in df.columns
      \* trend_df.empty after created_ts.to_frame(): no Created series, or no rows
      cEmpty == ~hasC \/ DOMAIN c = {}
      index == IF ~hasR THEN DOMAIN c
               ELSE IF cEmpty THEN DOMAIN r
               ELSE DOMAIN c \cup DOMAIN r
      months == SortedSeq(index)
  IN [k \in DOMAIN months |->
        [month |-> months[k],
         Created |-> IF hasC /\ ~(hasR /\ cEmpty) /\ months[k] \in DOMAIN c
                       THEN c[months[k]] ELSE NoCount,
         Resolved |-> IF hasR /\ months[k] \in DOMAIN r
                        THEN r[months[k]] ELSE NoCount]]

\* ------------------------------------------------------------- table
default_cols(df) ==
  SelectSeq(<<"Issue key", "Summary", "Issue Type", "Status", "Priority",
              "Assignee", "Created", "Resolved">>,
            LAMBDA c : c \in df.columns)

\* ------------------------------------------------------------- one run
NoFile == [columns |-> {}, rows |-> <<>>]

NoWidgets ==
  [issue_types |-> {}, statuses |-> {}, priorities |-> {}, assignees |-> {},
   date_range |-> <<>>]

\* What a run leaves on the page when it stops before computing anything.
Blank(phase, miss) ==
  [phase |-> phase, missing |-> miss, computed |-> {},
   filtered_df |-> <<>>,
   total_issues |-> NoCount, open_issues |-> NoCount,
   closed_issues |-> NoCount, created_recent |-> NoCount,
   resolved_recent |-> NoCount,
   type_counts |-> << >>, status_counts |-> << >>,
   assignee_counts |-> << >>, trend_df |-> <<>>, table_cols |-> <<>>]

\* The body of the script from "Apply filters" to the details table.
Render(df, w, now) ==
  LET f == filtered_df(df, w)
  IN [phase |-> "rendered", missing |-> <<>>,
      computed |-> {"filter", "kpi", "charts", "trend", "table"},
      filtered_df |-> f,
      total_issues |-> total_issues(df),
      open_issues |-> open_issues(df),
      closed_issues |-> closed_issues(df),
      created_recent |-> created_recent(df, now),
      resolved_recent |-> resolved_recent(df, now),
      type_counts |-> type_counts(df, f),
      status_counts |-> status_counts(df, f),
      assignee_counts |-> assignee_counts(df, f),
      trend_df |-> trend_df(df),
      table_cols |-> default_cols(df)]

\* One run of the script on the loaded frame with the widget state w.
Run(df, w, now) ==
  IF missing(df) # <<>> THEN Blank("missing_columns", missing(df))
  ELSE IF UnpackRaises(df, w) THEN Blank("raised", <<>>)
  ELSE Render(df, w, now)

\* The clock value the run read: line 157 is reached only by a full render.
ClockRead(df, w, now) ==
  IF missing(df) = <<>> /\ ~UnpackRaises(df, w) THEN now ELSE NaT

\* ------------------------------------------------------------- inputs
Bug == <<"B","u","g">>
Task == <<"T","a","s","k">>
High == <<"H","i","g","h">>
Ann == <<"a","n","n">>
Key1 == <<"V","6","-","1">>
Text == <<"t","e","x","t">>
Open == <<"O","p","e","n">>
Closed == <<"C","l","o","s","e","d">>
DonePadded == <<" ","D","O","N","E"," ">>
Spaces == <<" "," ">>
ClosedNot == <<"n","o","t"," ","c","l","o","s","e","d">>

\* 1 February 00:00, 2 March 09:00
Feb1 == 31 * HoursPerDay
Mar2Morning == 60 * HoursPerDay + 9

\* The clock reading of the runs: 2 March 12:00
Nows == {60 * HoursPerDay + 12}

Row(k, t, s, p, a, c, u, r) ==
  [col \in Columns |->
     CASE col = "Summary" -> Text
       [] col = "Issue key" -> k
       [] col = "Issue Type" -> t
       [] col = "Status" -> s
       [] col = "Priority" -> p
       [] col = "Assignee" -> a
       [] col = "Created" -> c
       [] col = "Updated" -> u
       [] col = "Resolved" -> r]

\* The plain row: a Bug, Open, unprioritised, unassigned, created on
\* 1 February at midnight, not resolved.
BaseRow == Row(Key1, Bug, Open, NaN, NaN, Feb1, Feb1, BlankDate)

\* The cells a row of the model may hold in place of the plain row's.
OtherCells ==
  { <<"Issue key", NaN>>,
    <<"Issue Type", Task>>, <<"Issue Type", NaN>>,
    <<"Status", NaN>>, <<"Status", Spaces>>, <<"Status", DonePadded>>,
    <<"Status", ClosedNot>>,
    <<"Priority", High>>,
    <<"Assignee", Ann>>,
    <<"Created", Unparseable>>, <<"Created", Mar2Morning>>,
    <<"Resolved", Mar2Morning>> }

\* The rows of the model: the plain row, and the plain row with one cell
\* replaced.
Rows == {BaseRow} \cup {[BaseRow EXCEPT ![c[1]] = c[2]] : c \in OtherCells}

\* The sequences over S of length at most n.
SeqsUpTo(S, n) == UNION {[1..k -> S] : k \in 0..n}

\* Project a full row onto the columns a csv has.
Project(rows, cols) == [i \in DOMAIN rows |-> [c \in cols |-> rows[i][c]]]

\* Uploads with every column.
FullFiles == {[columns |-> Columns, rows |-> rs] : rs \in SeqsUpTo(Rows, MaxRows)}

\* Uploads with any set of columns, over two sample rows.
SampleRows ==
  {Row(Key1, Bug, Open, High, NaN, Feb1, Feb1, BlankDate),
   Row(NaN, Task, Closed, NaN, Ann, Unparseable, Mar2Morning, Mar2Morning)}

PartialFiles ==
  {[columns |-> cs, rows |-> Project(rs, cs)] :
     cs \in SUBSET Columns, rs \in SeqsUpTo(SampleRows, MaxRows)}

Files == (FullFiles \cup PartialFiles) \ {NoFile}

\* The days the model picks in the date_input: the calendar days of the date
\* column's timestamps (all lie in [min_value, max_value]).
PickableDays(df) ==
  IF date_col(df) = None THEN {}
  ELSE {DateOf(t) : t \in Stamps(df, date_col(df))}

\* ------------------------------------------------------------- state
VARIABLES uploaded_file, df, widgets, now, out

vars == <<uploaded_file, df, widgets, now, out>>

Init ==
  /\ uploaded_file = NoFile
  /\ df = NoFile
  /\ widgets = NoWidgets
  /\ now = NaT
  /\ out = Blank("awaiting_upload", <<>>)

\* The widgets the run shows: none when it stops at the column check.
Shown(d, w) == IF missing(d) # <<>> THEN NoWidgets ELSE w

\* A rerun of the script on frame d with widget state w at clock reading t.
Rerun(d, w, t) ==
  /\ df' = d
  /\ widgets' = Shown(d, w)
  /\ now' = ClockRead(d, w, t)
  /\ out' = Run(d, w, t)

\* The user uploads a csv: first run, widgets at their defaults.
Upload ==
  /\ uploaded_file = NoFile
  /\ \E file \in Files, t \in Nows :
       /\ uploaded_file' = file
       /\ Rerun(load_data(file), DefaultWidgets(load_data(file)), t)

\* The user removes the uploaded file: the run shows the upload hint.
Remove ==
  /\ uploaded_file # NoFile
  /\ uploaded_file' = NoFile
  /\ df' = NoFile
  /\ widgets' = NoWidgets
  /\ now' = NaT
  /\ out' = Blank("awaiting_upload", <<>>)

FiltersShown == out.phase \in {"rendered", "raised"}

Toggle(S, v) == IF v \in S THEN S \ {v} ELSE S \cup {v}

ToggleIssueType ==
  /\ FiltersShown
  /\ \E v \in issue_types(df), t \in Nows :
       Rerun(df, [widgets EXCEPT !.issue_types = Toggle(@, v)], t)
  /\ UNCHANGED uploaded_file

ToggleStatus ==
  /\ FiltersShown
  /\ \E v \in statuses(df), t \in Nows :
       Rerun(df, [widgets EXCEPT !.statuses = Toggle(@, v)], t)
  /\ UNCHANGED uploaded_file

TogglePriority ==
  /\ FiltersShown
  /\ \E v \in priorities(df), t \in Nows :
       Rerun(df, [widgets EXCEPT !.priorities = Toggle(@, v)], t)
  /\ UNCHANGED uploaded_file

ToggleAssignee ==
  /\ FiltersShown
  /\ \E v \in assignees(df), t \in Nows :
       Rerun(df, [widgets EXCEPT !.assignees = Toggle(@, v)], t)
  /\ UNCHANGED uploaded_file

\* The user clicks a first day in the date_input: it delivers (start,).
PickStart ==
  /\ FiltersShown
  /\ HasDateInput(df)
  /\ \E d \in PickableDays(df), t \in Nows :
       Rerun(df, [widgets EXCEPT !.date_range = <<d>>], t)
  /\ UNCHANGED uploaded_file

\* The user clicks the second day: it delivers (start, end), start <= end.
PickEnd ==
  /\ FiltersShown
  /\ Len(widgets.date_range) = 1
  /\ \E d \in PickableDays(df), t \in Nows :
       /\ d >= widgets.date_range[1]
       /\ Rerun(df, [widgets EXCEPT !.date_range = <<@[1], d>>], t)
  /\ UNCHANGED uploaded_file

Next ==
  \/ Upload
  \/ Remove
  \/ ToggleIssueType
  \/ ToggleStatus
  \/ TogglePriority
  \/ ToggleAssignee
  \/ PickStart
  \/ PickEnd

Spec == Init /\ [][Next]_vars

\* ============================================================= claims
Rendered == out.phase = "rendered"

\* The index labels a filtered frame keeps, as a set.
Kept == {out.filtered_df[k] : k \in DOMAIN out.filtered_df}

\* A strictly increasing sequence of index labels of df: a subsequence of the
\* dataset in original order, no row twice.
IsSubsequence(idx) ==
  /\ \A k \in DOMAIN idx : idx[k] \in Index(df)
  /\ \A j, k \in DOMAIN idx : j < k => idx[j] < idx[k]

\* A set-membership constraint: enabled only by a non-empty selection.
InSelection(sel, i, col) == sel # {} => Cell(df, i, col) \in sel

\* The AND of the four set-membership constraints under the widget state w.
PassesSelections(w, i) ==
  /\ InSelection(w.issue_types, i, "Issue Type")
  /\ InSelection(w.statuses, i, "Status")
  /\ InSelection(w.priorities, i, "Priority")
  /\ InSelection(w.assignees, i, "Assignee")

\* The date column of the claims: Created if present, otherwise Updated.
ChosenDateCell(i) ==
  IF "Created" \in df.columns THEN Cell(df, i, "Created")
  ELSE Cell(df, i, "Updated")

RangeActive ==
  /\ Len(widgets.date_range) = 2
  /\ ("Created" \in df.columns \/ "Updated" \in df.columns)

\* The date mask as the run evaluates it: timestamps between the two
\* midnights.
BetweenMidnights(i) ==
  RangeActive =>
    /\ ChosenDateCell(i) # NaT
    /\ widgets.date_range[1] * 24 <= ChosenDateCell(i)
    /\ ChosenDateCell(i) <= widgets.date_range[2] * 24

\* The date constraint of C3: the calendar day of the timestamp lies in
\* [start, end], whatever the time of day.
OnDayInRange(i) ==
  RangeActive =>
    /\ ChosenDateCell(i) # NaT
    /\ widgets.date_range[1] <= ChosenDateCell(i) \div 24
    /\ ChosenDateCell(i) \div 24 <= widgets.date_range[2]

\* ---- C1
RequiredColumns == {"Summary", "Issue key", "Issue Type", "Status"}
AbsentRequired == RequiredColumns \ uploaded_file.columns
AllStages == {"filter", "kpi", "charts", "trend", "table"}

\* C1: after an upload, if a required column (Summary, Issue key, Issue Type,
\* Status) is absent the run reports exactly the absent required columns and
\* computes no filter, KPI, chart or table; if none is absent, whatever
\* optional columns are missing, no missing-column error is reported and the
\* first run (widgets at their defaults) computes every stage.
C1_MissingColumns ==
  uploaded_file # NoFile =>
    IF AbsentRequired # {}
      THEN /\ out.phase = "missing_columns"
           /\ {out.missing[k] : k \in DOMAIN out.missing} = AbsentRequired
           /\ Len(out.missing) = Cardinality(AbsentRequired)
           /\ out.computed = {}
      ELSE /\ out.phase # "missing_columns"
           /\ out.missing = <<>>
           /\ widgets = DefaultWidgets(df) =>
                out.phase = "rendered" /\ out.computed = AllStages

\* Two required columns absent while an optional column is present.
C1_Witness ==
  /\ out.phase = "missing_columns"
  /\ Len(out.missing) = 2
  /\ "Priority" \in uploaded_file.columns

\* ---- C2
\* C2: the filtered set is the subsequence of the loaded dataset, in original
\* order and without duplicates, of exactly the rows that satisfy every
\* enabled constraint: the four set-membership constraints (enabled only by a
\* non-empty selection, satisfied by the exact cell value being selected) and
\* the date mask; the loaded dataset is what was loaded from the file.
C2_FilteredSubsequence ==
  Rendered =>
    /\ IsSubsequence(out.filtered_df)
    /\ Kept = {i \in Index(df) : PassesSelections(widgets, i) /\ BetweenMidnights(i)}
    /\ df = load_data(uploaded_file)

\* A cleared multiselect passes rows through while another selection drops
\* some rows and keeps others.
C2_Witness ==
  /\ Rendered
  /\ widgets.statuses = {}
  /\ widgets.issue_types # {}
  /\ Len(out.filtered_df) > 0
  /\ Len(out.filtered_df) < Len(df.rows)
  /\ \E i \in Kept : Cell(df, i, "Status") = NaN

\* ---- C3
\* C3: with a date range (start, end) active on the chosen date column, a row
\* passes the date constraint exactly when its date is non-null and falls on a
\* calendar day d with start <= d <= end, whatever its time of day.
C3_DateRangeByDay ==
  Rendered =>
    Kept = {i \in Index(df) : PassesSelections(widgets, i) /\ OnDayInRange(i)}

\* ---- C4
\* The widget states that keep the date range of the current one.
WidgetStates ==
  [issue_types : SUBSET issue_types(df),
   statuses : SUBSET statuses(df),
   priorities : SUBSET priorities(df),
   assignees : SUBSET assignees(df),
   date_range : {widgets.date_range}]

AllowedSubset(w1, w2) ==
  /\ w1.issue_types \subseteq w2.issue_types
  /\ w1.statuses \subseteq w2.statuses
  /\ w1.priorities \subseteq w2.priorities
  /\ w1.assignees \subseteq w2.assignees

\* No allowed set of w1 is empty unless the corresponding set of w2 is.
EmptyOnlyWithEmpty(w1, w2) ==
  /\ w1.issue_types = {} => w2.issue_types = {}
  /\ w1.statuses = {} => w2.statuses = {}
  /\ w1.priorities = {} => w2.priorities = {}
  /\ w1.assignees = {} => w2.assignees = {}

Elems(idx) == {idx[k] : k \in DOMAIN idx}

\* C4 as stated: with the same date range, if every allowed set of the current
\* criteria is a subset of the corresponding set of other criteria, every row
\* the current criteria keep is kept by the other criteria too.
C4_Monotone ==
  Rendered =>
    \A w2 \in WidgetStates :
      AllowedSubset(widgets, w2) => Kept \subseteq Elems(filtered_df(df, w2))

\* C4 amended: the same, for criteria in which an allowed set of the smaller
\* criteria is empty only when the corresponding set of the larger is empty.
C4_MonotoneNonEmpty ==
  Rendered =>
    \A w2 \in WidgetStates :
      AllowedSubset(widgets, w2) /\ EmptyOnlyWithEmpty(widgets, w2) =>
        Kept \subseteq Elems(filtered_df(df, w2))

\* A strictly smaller non-empty selection keeps some rows and drops others.
C4_Witness ==
  /\ Rendered
  /\ widgets.statuses # {}
  /\ widgets.statuses # statuses(df)
  /\ widgets.issue_types # {}
  /\ Kept # {}
  /\ Kept # Index(df)

\* ---- C5
RECURSIVE SumCounts(_)
SumCounts(vc) ==
  IF DOMAIN vc = {} THEN 0
  ELSE LET v == CHOOSE x \in DOMAIN vc : TRUE
       IN vc[v] + SumCounts([x \in (DOMAIN vc) \ {v} |-> vc[x]])

\* C5: the aggregations of the filtered set by Issue Type, by Status and by
\* Assignee drop no filtered row (null cells are counted under a bucket of
\* their own): the counts of each aggregation sum to the filtered row count.
C5_CountsConserveRows ==
  Rendered =>
    /\ SumCounts(out.type_counts) = Len(out.filtered_df)
    /\ SumCounts(out.status_counts) = Len(out.filtered_df)
    /\ "Assignee" \in df.columns =>
         SumCounts(out.assignee_counts) = Len(out.filtered_df)

\* ---- C6
\* The rows of the dataset whose col timestamp is non-null and in the month
\* starting at m.
RowsInMonth(col, m) ==
  {i \in Index(df) : Cell(df, i, col) # NaT /\ MonthStart(Cell(df, i, col)) = m}

\* C6: in the monthly trend every month holding a Created (Resolved) timestamp
\* has a bucket whose Created (Resolved) count is the number of rows with a
\* timestamp in that month, and the buckets ascend by month start.
C6_MonthlyTrend ==
  Rendered =>
    /\ \A j, k \in DOMAIN out.trend_df :
         j < k => out.trend_df[j].month < out.trend_df[k].month
    /\ \A col \in {"Created", "Resolved"} \cap df.columns :
         \A i \in Index(df) :
           Cell(df, i, col) # NaT =>
             \E k \in DOMAIN out.trend_df :
               /\ out.trend_df[k].month = MonthStart(Cell(df, i, col))
               /\ out.trend_df[k][col] =
                    Cardinality(RowsInMonth(col, out.trend_df[k].month))

\* ---- C7
\* C7: 'Issues Created (Last 30 Days)' is the number of rows whose Created
\* timestamp t is non-null with now - 30 days <= t <= now, now being the time
\* of evaluation.
C7_CreatedLast30Days ==
  Rendered /\ "Created" \in df.columns =>
    out.created_recent =
      Cardinality({i \in Index(df) :
                     /\ Cell(df, i, "Created") # NaT
                     /\ now - 30 * 24 <= Cell(df, i, "Created")
                     /\ Cell(df, i, "Created") <= now})

\* ---- C8
\* C8: for a dataset with the required columns, every widget state delivers a
\* run that completes; the only failure is the missing-column error.
C8_RunsComplete ==
  uploaded_file # NoFile /\ AbsentRequired = {} => Rendered

\* ---- C9
\* C9: in the initial filter state (every multiselect preset to all its
\* options, the date range to [earliest, latest]) the filtered set is the whole
\* dataset.
C9_DefaultsShowAll ==
  Rendered /\ widgets = DefaultWidgets(df) =>
    Len(out.filtered_df) = Len(df.rows)

\* ---- C10
ClosedWords ==
  { <<"c","l","o","s","e","d">>, <<"d","o","n","e">>,
    <<"r","e","s","o","l","v","e","d">> }

\* x is the letter y or its capital.
SameLetter(x, y) ==
  x = y \/ \E k \in DOMAIN Upper : Upper[k] = x /\ LowerLetters[k] = y

\* The cell is a closed word in any letter case between blanks.
ReadsClosed(cell) ==
  /\ cell # NaN
  /\ \E a \in 0..Len(cell), b \in 0..Len(cell), word \in ClosedWords :
       /\ b - a = Len(word)
       /\ \A k \in 1..a : cell[k] \in {" ", "\t"}
       /\ \A k \in (b + 1)..Len(cell) : cell[k] \in {" ", "\t"}
       /\ \A k \in 1..Len(word) : SameLetter(cell[a + k], word[k])

\* C10: Open Issues + Closed Issues = Total Issues = the number of rows of the
\* unfiltered dataset; a row is closed exactly when its Status, trimmed and
\* lower-cased, is closed, done or resolved, and open otherwise (null or blank
\* included); the three numbers are functions of the dataset alone.
C10_OpenClosedTotal ==
  Rendered =>
    /\ out.total_issues = Len(df.rows)
    /\ out.closed_issues =
         Cardinality({i \in Index(df) : ReadsClosed(Cell(df, i, "Status"))})
    /\ out.open_issues + out.closed_issues = out.total_issues

\* A padded upper-case DONE row and a null-Status row, under a filter that
\* hides part of the dataset.
C10_Witness ==
  /\ Rendered
  /\ out.closed_issues = 1
  /\ out.open_issues = 1
  /\ \E i \in Index(df) : Cell(df, i, "Status") = DonePadded
  /\ \E i \in Index(df) : Cell(df, i, "Status") = NaN
  /\ Len(out.filtered_df) < Len(df.rows)

====
